---- MODULE Spec2Model ----
(***************************************************************************)
(* Model of components/style/gecko/regen_atoms.py: the generator that      *)
(* scrapes include/nsGkAtomList.h with PATTERN, builds Atom records and    *)
(* writes atom_macro.rs and pseudo_element_definition.rs through           *)
(* FileAvoidWrite.                                                         *)
(*                                                                         *)
(* Text (the header, identifiers, literal values, tags) is a sequence of   *)
(* one-character strings, so that the regular expression, str.split and    *)
(* str.format are computed character by character.  The content of an      *)
(* output file is a sequence of chunks, one chunk per instantiated         *)
(* template of the script (PRELUDE, CONST_TEMPLATE, RULE_TEMPLATE, ...).   *)
(***************************************************************************)
EXTENDS Integers, Sequences, FiniteSets, TLC

(***************************************************************************)
(* Bounds of the model.                                                    *)
(***************************************************************************)
\* the header holds at most MaxLines lines
MaxLines == 2
\* generate_atoms is run at most MaxRuns times, one after the other
MaxRuns == 2
\* the header of the runs that meet faults holds at most MaxFaultLines lines
MaxFaultLines == 1

(***************************************************************************)
(* Fixed text of the script.                                               *)
(***************************************************************************)
\* the literal 'GK_ATOM\(' that opens PATTERN
GK_ATOM_OPEN == <<"G", "K", "_", "A", "T", "O", "M", "(">>
\* the literal "nsGkAtoms_" of Atom.__init__
IDENT_PREFIX == <<"n", "s", "G", "k", "A", "t", "o", "m", "s", "_">>
nsStaticAtom == <<"n", "s", "S", "t", "a", "t", "i", "c", "A", "t", "o", "m">>
nsICSSPseudoElement == <<"n", "s", "I", "C", "S", "S", "P", "s", "e", "u", "d", "o", "E", "l", "e", "m", "e", "n", "t">>
nsICSSAnonBoxPseudo == <<"n", "s", "I", "C", "S", "S", "A", "n", "o", "n", "B", "o", "x", "P", "s", "e", "u", "d", "o">>
AtomTag == <<"A", "t", "o", "m">>
PseudoElementAtom == <<"P", "s", "e", "u", "d", "o", "E", "l", "e", "m", "e", "n", "t", "A", "t", "o", "m">>
NonInheritingAnonBoxAtom == <<"N", "o", "n", "I", "n", "h", "e", "r", "i", "t", "i", "n", "g", "A", "n", "o", "n", "B", "o", "x", "A", "t", "o", "m">>
InheritingAnonBoxAtom == <<"I", "n", "h", "e", "r", "i", "t", "i", "n", "g", "A", "n", "o", "n", "B", "o", "x", "A", "t", "o", "m">>

\* the identifiers map_atom escapes
ReservedIdents ==
    { <<"b", "o", "x">>, <<"l", "o", "o", "p">>, <<"m", "a", "t", "c", "h">>,
      <<"m", "o", "d">>, <<"r", "e", "f">>, <<"s", "e", "l", "f">>,
      <<"t", "y", "p", "e">>, <<"u", "s", "e">>, <<"w", "h", "e", "r", "e">>,
      <<"i", "n">> }

(***************************************************************************)
(* PATTERN and re.finditer.                                                *)
(***************************************************************************)
\* the character classes PATTERN uses: [^,]  [^"]  [^)]  \s  [0-9a-f]
InClass(c, cls) ==
    CASE cls = "not_comma"  -> c # ","
      [] cls = "not_quote"  -> c # "\""
      [] cls = "not_rparen" -> c # ")"
      [] cls = "space"      -> c \in {" ", "\t", "\n", "\r", "\f"}
      [] cls = "hex"        -> c \in {"0", "1", "2", "3", "4", "5", "6", "7", "8", "9",
                                      "a", "b", "c", "d", "e", "f"}
      [] cls = "not_underscore" -> c # "_"

\* Span with the star dropped from the class: nothing is consumed
Span_NoStar(s, p, cls) == p

\* cls* matched greedily from position p: the first position at or after p
\* whose character is not in cls (Len(s) + 1 when the run reaches the end)
Span(s, p, cls) ==
    IF p > Len(s) THEN p
    ELSE CHOOSE i \in p..(Len(s) + 1) :
             /\ i > Len(s) \/ ~InClass(s[i], cls)
             /\ \A j \in p..(i - 1) : InClass(s[j], cls)

\* '^' under re.MULTILINE: the start of the text or just after a newline
AtLineStart(s, p) == p = 1 \/ s[p - 1] = "\n"

\* PATTERN.match at position p.  Every starred class is followed by a
\* character outside the class (or, for \s*, by a class that can absorb what
\* \s* gives back), so the greedy attempt succeeds whenever any attempt does
\* and the groups are the ones computed here.
MatchAt(s, p) ==
    LET n   == Len(s)
        a1  == p + Len(GK_ATOM_OPEN)          \* start of group 1
        e1  == Span(s, a1, "not_comma")       \* the ',' after group 1
        q1  == Span(s, e1 + 1, "not_quote")   \* the opening '"'
        q2  == Span(s, q1 + 1, "not_quote")   \* the closing '"'
        a3  == Span(s, q2 + 2, "space")       \* start of group 3: '0x'
        e3  == Span(s, a3 + 2, "hex")         \* the ',' after group 3
        a4  == Span(s, e3 + 1, "space")       \* start of group 4
        e4  == Span(s, a4, "not_comma")       \* the ',' after group 4
        a5  == Span(s, e4 + 1, "space")       \* start of group 5
        e5  == Span(s, a5, "not_rparen")      \* the closing ')'
        ok  == /\ AtLineStart(s, p)
               /\ a1 - 1 <= n
               /\ SubSeq(s, p, a1 - 1) = GK_ATOM_OPEN
               /\ e1 <= n
               /\ q1 <= n
               /\ q2 <= n
               /\ q2 + 1 <= n
               /\ s[q2 + 1] = ","
               /\ a3 + 1 <= n
               /\ s[a3] = "0"
               /\ s[a3 + 1] = "x"
               /\ e3 > a3 + 2
               /\ e3 <= n
               /\ s[e3] = ","
               /\ e4 <= n
               /\ e5 <= n
    IN  IF ok
        THEN [ok |-> TRUE, end |-> e5 + 1,
              groups |-> << SubSeq(s, a1, e1 - 1), SubSeq(s, q1 + 1, q2 - 1),
                            SubSeq(s, a3, e3 - 1), SubSeq(s, a4, e4 - 1),
                            SubSeq(s, a5, e5 - 1) >>]
        ELSE [ok |-> FALSE]

\* the first position after p where '^' matches (Len(s) + 1 without one)
NextLineStart(s, p) ==
    CHOOSE q \in (p + 1)..(Len(s) + 1) :
        /\ q > Len(s) \/ AtLineStart(s, q)
        /\ \A j \in (p + 1)..(q - 1) : ~AtLineStart(s, j)

\* PATTERN.finditer(content) from position p: the non-overlapping matches,
\* left to right.  After a failed attempt at p the scan goes on at p + 1;
\* PATTERN opens with '^', so the attempts up to the next line start fail and
\* the scan is resumed there.
RECURSIVE finditer(_, _)
finditer(s, p) ==
    IF p > Len(s) THEN <<>>
    ELSE LET m == MatchAt(s, p)
         IN  IF m.ok THEN <<m.groups>> \o finditer(s, m.end)
             ELSE finditer(s, NextLineStart(s, p))

(***************************************************************************)
(* map_atom and class Atom.                                                *)
(***************************************************************************)
map_atom(ident) ==
    IF ident \in ReservedIdents THEN ident \o <<"_">> ELSE ident

is_pseudo(self) == self.atom_type = PseudoElementAtom
is_non_inheriting_anon_box(self) == self.atom_type = NonInheritingAnonBoxAtom
is_inheriting_anon_box(self) == self.atom_type = InheritingAnonBoxAtom
is_anon_box(self) == is_non_inheriting_anon_box(self) \/ is_inheriting_anon_box(self)
type(self) == self.ty

\* ident.split("_", 1)
split1(ident) ==
    LET k == Span(ident, 1, "not_underscore")
    IN  IF k > Len(ident) THEN <<ident>>
        ELSE <<SubSeq(ident, 1, k - 1), SubSeq(ident, k + 1, Len(ident))>>

\* QualifiedIdent with the identifier passed through map_atom first
QualifiedIdent_Escaped(ident) == IDENT_PREFIX \o map_atom(ident)

\* "nsGkAtoms_{}".format(ident)
QualifiedIdent(ident) == IDENT_PREFIX \o ident

\* AtomInit with the assertion testing the Gecko type of an anon-box record
AtomInit_TypeAsserted(ident, value, hash, ty, atom_type) ==
    LET base  == [ident |-> IDENT_PREFIX \o ident, original_ident |-> ident,
                  value |-> value, hash |-> hash, ty |-> ty,
                  atom_type |-> atom_type]
        parts == split1(ident)
        self  == base @@ ("pseudo_ident" :> parts[2])
    IN  IF is_pseudo(base) \/ is_anon_box(base)
        THEN IF Len(parts) < 2
             THEN [ok |-> FALSE, error |-> "IndexError"]
             ELSE IF is_anon_box(self) /\ self.ty # nsICSSAnonBoxPseudo
                  THEN [ok |-> FALSE, error |-> "AssertionError"]
                  ELSE [ok |-> TRUE, atom |-> self]
        ELSE [ok |-> TRUE, atom |-> base]

\* AtomInit taking the whole identifier as pseudo_ident when it holds no '_'
AtomInit_Tolerant(ident, value, hash, ty, atom_type) ==
    LET base  == [ident |-> IDENT_PREFIX \o ident, original_ident |-> ident,
                  value |-> value, hash |-> hash, ty |-> ty,
                  atom_type |-> atom_type]
        parts == split1(ident)
    IN  IF is_pseudo(base) \/ is_anon_box(base)
        THEN [ok |-> TRUE, atom |-> base @@ ("pseudo_ident" :> parts[Len(parts)])]
        ELSE [ok |-> TRUE, atom |-> base]

\* Atom.__init__: the record, or the exception that leaves the constructor
AtomInit(ident, value, hash, ty, atom_type) ==
    LET base  == [ident |-> QualifiedIdent(ident), original_ident |-> ident,
                  value |-> value, hash |-> hash, ty |-> ty,
                  atom_type |-> atom_type]
        parts == split1(ident)
        self  == base @@ ("pseudo_ident" :> parts[2])
    IN  IF is_pseudo(base) \/ is_anon_box(base)
        THEN IF Len(parts) < 2
             THEN [ok |-> FALSE, error |-> "IndexError"]
             ELSE IF is_anon_box(self)
                     /\ ~(is_inheriting_anon_box(self) \/ is_non_inheriting_anon_box(self))
                  THEN [ok |-> FALSE, error |-> "AssertionError"]
                  ELSE [ok |-> TRUE, atom |-> self]
        ELSE [ok |-> TRUE, atom |-> base]

\* the loop of collect_atoms over the matches: the first exception ends it
RECURSIVE ConstructAtoms(_)
ConstructAtoms(ms) ==
    IF ms = <<>> THEN [ok |-> TRUE, atoms |-> <<>>]
    ELSE LET g == Head(ms)
             r == AtomInit(g[1], g[2], g[3], g[4], g[5])
             rest == ConstructAtoms(Tail(ms))
         IN  IF ~r.ok THEN [ok |-> FALSE, error |-> r.error]
             ELSE IF ~rest.ok THEN rest
             ELSE [ok |-> TRUE, atoms |-> <<r.atom>> \o rest.atoms]

\* collect_atoms taking a missing header for an empty one
collect_atoms_MissingIsEmpty(hdr) ==
    IF ~hdr.exists THEN [ok |-> TRUE, atoms |-> <<>>]
    ELSE ConstructAtoms(finditer(hdr.content, 1))

\* collect_atoms: the records of the header in order of appearance, or the
\* exception that leaves it (open() of a missing header, Atom.__init__)
collect_atoms(hdr) ==
    IF ~hdr.exists THEN [ok |-> FALSE, error |-> "IOError"]
    ELSE ConstructAtoms(finditer(hdr.content, 1))

(***************************************************************************)
(* The templates of write_atom_macro, one chunk per instantiation.         *)
(***************************************************************************)
PRELUDE == [t |-> "PRELUDE"]
IMPORTS == [t |-> "IMPORTS"]
UNSAFE_STATIC == [t |-> "UNSAFE_STATIC"]
SATOMS_TEMPLATE(link_name) == [t |-> "SATOMS", link_name |-> link_name]
CFG_IF_TEMPLATE(gnu, msvc32, msvc64) ==
    [t |-> "CFG_IF", gnu |-> gnu, msvc64 |-> msvc64, msvc32 |-> msvc32]
CONST_TEMPLATE(name, index) == [t |-> "CONST", name |-> name, index |-> index]
RULE_TEMPLATE(atom, name) == [t |-> "RULE", atom |-> atom, name |-> name]
MACRO_TEMPLATE(body) == <<[t |-> "MACRO_OPEN"]>> \o body \o <<[t |-> "MACRO_CLOSE"]>>

\* EnumerateIndex counting from one
EnumerateIndex_OneBased(i) == i

\* the value enumerate(atoms) pairs with the record at position i of 1..Len
EnumerateIndex(i) == i - 1

\* consts: one CONST_TEMPLATE per (i, atom) of enumerate(atoms)
Consts(as) == [i \in 1..Len(as) |-> CONST_TEMPLATE(as[i].ident, EnumerateIndex(i))]

\* macro_rules: one RULE_TEMPLATE per atom
MacroRules(as) == [i \in 1..Len(as) |-> RULE_TEMPLATE(as[i].value, as[i].ident)]

\* the f.write calls of write_atom_macro, in order
AtomMacroWrites(as) ==
    << <<PRELUDE>>,
       <<IMPORTS>>,
       <<UNSAFE_STATIC>>,
       <<CFG_IF_TEMPLATE(SATOMS_TEMPLATE("_ZN9nsGkAtoms6sAtomsE"),
                         SATOMS_TEMPLATE("\\x01?sAtoms@nsGkAtoms@@0QBVnsStaticAtom@@B"),
                         SATOMS_TEMPLATE("?sAtoms@nsGkAtoms@@0QEBVnsStaticAtom@@EB"))>>,
       Consts(as),
       MACRO_TEMPLATE(MacroRules(as)) >>

(***************************************************************************)
(* write_pseudo_elements.                                                  *)
(***************************************************************************)
\* IsPseudoType without the anon-box tag
IsPseudoType_ElementOnly(atom) == type(atom) = nsICSSPseudoElement

\* the test of line 208
IsPseudoType(atom) ==
    type(atom) = nsICSSPseudoElement \/ type(atom) = nsICSSAnonBoxPseudo

\* the loop of lines 206-209
RECURSIVE FilterPseudos(_)
FilterPseudos(as) ==
    IF as = <<>> THEN <<>>
    ELSE IF IsPseudoType(Head(as)) THEN <<Head(as)>> \o FilterPseudos(Tail(as))
    ELSE FilterPseudos(Tail(as))

\* build.render(pseudo_definition_template, PSEUDOS=pseudos): the external
\* renderer, a function of the template and of its binding
render(template, PSEUDOS) == <<[t |-> "RENDERED", template |-> template, PSEUDOS |-> PSEUDOS]>>

(***************************************************************************)
(* FileAvoidWrite.close.                                                   *)
(***************************************************************************)
\* close() without the comparison: the target is always rewritten
FileAvoidWrite_close_AlwaysWrite(file, data, readFault) ==
    [file |-> [exists |-> TRUE, content |-> data, mtime |-> file.mtime + 1],
     read |-> IF ~file.exists THEN "ENOENT" ELSE IF readFault THEN "EIO" ELSE "ok",
     wrote |-> TRUE]

\* close() catching only the missing file: another read failure ends close()
\* before the write
FileAvoidWrite_close_NotFoundOnly(file, data, readFault) ==
    LET readRes == IF ~file.exists THEN "ENOENT"
                   ELSE IF readFault THEN "EIO"
                   ELSE "ok"
    IN  IF readRes = "EIO" \/ (readRes = "ok" /\ file.content = data)
        THEN [file |-> file, read |-> readRes, wrote |-> FALSE]
        ELSE [file |-> [exists |-> TRUE, content |-> data, mtime |-> file.mtime + 1],
              read |-> readRes, wrote |-> TRUE]

\* close() on the target `file` with the buffered bytes `data`.  readFault:
\* open(self.name, 'rb') or f.read() fails on an existing file (permission
\* denied, I/O fault).  Python raises IOError for it as it does for a missing
\* file, and `except IOError: pass` takes both to the write.
\* Result: the file afterwards, the outcome of the read, whether the target
\* was opened for writing (when it was not, "... is not changed, skip" is
\* printed).
FileAvoidWrite_close(file, data, readFault) ==
    LET readRes == IF ~file.exists THEN "ENOENT"
                   ELSE IF readFault THEN "EIO"
                   ELSE "ok"
        same    == readRes = "ok" /\ file.content = data
    IN  IF same
        THEN [file |-> file, read |-> readRes, wrote |-> FALSE]
        ELSE [file |-> [exists |-> TRUE, content |-> data, mtime |-> file.mtime + 1],
              read |-> readRes, wrote |-> TRUE]

(***************************************************************************)
(* The headers the runs are given.                                         *)
(***************************************************************************)
foo == <<"f", "o", "o">>
type_ident == <<"t", "y", "p", "e">>
after == <<"a", "f", "t", "e", "r">>
PseudoElement_after == <<"P", "s", "e", "u", "d", "o", "E", "l", "e", "m", "e", "n", "t", "_", "a", "f", "t", "e", "r">>
AnonBox_cell == <<"A", "n", "o", "n", "B", "o", "x", "_", "c", "e", "l", "l">>
colon_after == <<":", "a", "f", "t", "e", "r">>
moz_cell == <<":", "-", "m", "o", "z", "-", "c", "e", "l", "l">>
Hash12345678 == <<"0", "x", "1", "2", "3", "4", "5", "6", "7", "8">>

\* the line  GK_ATOM(ident, "value", hash, ty, atom_type)  of nsGkAtomList.h
Decl(ident, value, hash, ty, atom_type) ==
    GK_ATOM_OPEN \o ident \o <<",", " ", "\"">> \o value \o <<"\"", ",", " ">>
        \o hash \o <<",", " ">> \o ty \o <<",", " ">> \o atom_type \o <<")", "\n">>

\* GK_ATOM(foo, "foo", 0x12345678, nsStaticAtom, Atom)
LineFoo == Decl(foo, foo, Hash12345678, nsStaticAtom, AtomTag)
\* GK_ATOM(foo, "", "foo", 0x12345678, nsStaticAtom, Atom)
LineSixField ==
    GK_ATOM_OPEN \o foo \o <<",", " ", "\"", "\"", ",", " ", "\"">> \o foo
        \o <<"\"", ",", " ">> \o Hash12345678 \o <<",", " ">> \o nsStaticAtom
        \o <<",", " ">> \o AtomTag \o <<")", "\n">>
\* GK_ATOM(type, "type", 0x12345678, nsStaticAtom, Atom)
LineType == Decl(type_ident, type_ident, Hash12345678, nsStaticAtom, AtomTag)
\* GK_ATOM(PseudoElement_after, ":after", 0x12345678, nsICSSPseudoElement, PseudoElementAtom)
LinePseudo ==
    Decl(PseudoElement_after, colon_after, Hash12345678, nsICSSPseudoElement, PseudoElementAtom)
\* GK_ATOM(AnonBox_cell, ":-moz-cell", 0x12345678, nsICSSAnonBoxPseudo, InheritingAnonBoxAtom)
LineAnonBox ==
    Decl(AnonBox_cell, moz_cell, Hash12345678, nsICSSAnonBoxPseudo, InheritingAnonBoxAtom)
\* GK_ATOM(after, ":after", 0x12345678, nsICSSPseudoElement, PseudoElementAtom)
LineNoUnderscore ==
    Decl(after, colon_after, Hash12345678, nsICSSPseudoElement, PseudoElementAtom)
\* GK_ATOM(AnonBox_cell, ":-moz-cell", 0x12345678, nsStaticAtom, NonInheritingAnonBoxAtom)
LineAnonBoxStatic ==
    Decl(AnonBox_cell, moz_cell, Hash12345678, nsStaticAtom, NonInheritingAnonBoxAtom)

HeaderLines ==
    { LineFoo, LineSixField, LineType, LinePseudo, LineAnonBox, LineNoUnderscore,
      LineAnonBoxStatic }

RECURSIVE Concat(_)
Concat(lines) == IF lines = <<>> THEN <<>> ELSE Head(lines) \o Concat(Tail(lines))

\* the contents include/nsGkAtomList.h may have: at most max lines
HeaderContents(max) ==
    { Concat(ls) : ls \in UNION { [1..n -> HeaderLines] : n \in 0..max } }

HEADER == "include/nsGkAtomList.h"
TEMPLATE == "pseudo_element_definition.mako.rs"
ATOM_MACRO == "atom_macro.rs"
PSEUDO_DEFINITION == "pseudo_element_definition.rs"
OutFiles == {ATOM_MACRO, PSEUDO_DEFINITION}

\* what an output file may hold before the first run: nothing (no file), or
\* the output of some earlier build
StaleContent == <<[t |-> "STALE"]>>
InitialFiles ==
    { [exists |-> FALSE, content |-> <<>>, mtime |-> 0],
      [exists |-> TRUE, content |-> StaleContent, mtime |-> 0] }

(***************************************************************************)
(* State.                                                                  *)
(***************************************************************************)
VARIABLES
    header,     \* include/nsGkAtomList.h: [exists, content]
    files,      \* the two output files: [exists, content, mtime]
    stdout,     \* the lines printed so far
    io,         \* the file operations and render calls made so far, in order
    run,        \* the number of the current run of generate_atoms
    pc,         \* the position of the current run
    atoms,      \* generate_atoms: atoms
    pseudos,    \* write_pseudo_elements: pseudos
    contents,   \* write_pseudo_elements: contents
    buf,        \* the BytesIO buffer of the FileAvoidWrite of the current scope
    wi,         \* the number of f.write calls made in the current scope
    exc         \* the exception that ended the run, "none" without one

vars == <<header, files, stdout, io, run, pc, atoms, pseudos, contents, buf, wi, exc>>

ScopePcs == {"atom_macro_scope", "pseudo_scope"}
ScopeFile(p) == IF p = "atom_macro_scope" THEN ATOM_MACRO ELSE PSEUDO_DEFINITION
\* the f.write calls of the scope at p
Writes(p) == IF p = "atom_macro_scope" THEN AtomMacroWrites(atoms) ELSE <<contents>>

\* the state before the first run, the header holding at most max lines
InitWith(max) ==
    /\ header \in {[exists |-> FALSE, content |-> <<>>]}
                  \cup {[exists |-> TRUE, content |-> c] : c \in HeaderContents(max)}
    /\ files \in [OutFiles -> InitialFiles]
    /\ stdout = <<>>
    /\ io = <<>>
    /\ run = 1
    /\ pc = "collect_atoms"
    /\ atoms = <<>>
    /\ pseudos = <<>>
    /\ contents = <<>>
    /\ buf = <<>>
    /\ wi = 0
    /\ exc = "none"

Init == InitWith(MaxLines)

(***************************************************************************)
(* generate_atoms, step by step.                                           *)
(***************************************************************************)
\* atoms = collect_atoms(dist)
CollectAtoms ==
    /\ pc = "collect_atoms"
    /\ LET r == collect_atoms(header)
       IN  /\ stdout' = Append(stdout, [line |-> "cargo:rerun-if-changed", path |-> HEADER])
           /\ io' = Append(io, [run |-> run, op |-> "read", file |-> HEADER,
                                res |-> IF header.exists THEN "ok" ELSE "ENOENT"])
           /\ IF r.ok
              THEN atoms' = r.atoms /\ pc' = "write_atom_macro" /\ exc' = "none"
              ELSE atoms' = <<>> /\ pc' = "aborted" /\ exc' = r.error
    /\ UNCHANGED <<header, files, run, pseudos, contents, buf, wi>>

\* write_atom_macro: with FileAvoidWrite(file_name) as f
EnterAtomMacro ==
    /\ pc = "write_atom_macro"
    /\ pc' = "atom_macro_scope"
    /\ buf' = <<>>
    /\ wi' = 0
    /\ UNCHANGED <<header, files, stdout, io, run, atoms, pseudos, contents, exc>>

\* FileAvoidWrite.write: the next f.write of the scope goes to the buffer
Write ==
    /\ pc \in ScopePcs
    /\ wi < Len(Writes(pc))
    /\ buf' = buf \o Writes(pc)[wi + 1]
    /\ wi' = wi + 1
    /\ UNCHANGED <<header, files, stdout, io, run, pc, atoms, pseudos, contents, exc>>

\* the position after the scope at p
AfterScope(p) == IF p = "atom_macro_scope" THEN "write_pseudo_elements" ELSE "done"

\* ExitScope without __exit__: an exception leaves the scope and the buffer
\* is dropped
ExitScope_DropOnRaise(raised, readFault) ==
    LET f == ScopeFile(pc)
        r == FileAvoidWrite_close(files[f], buf, readFault)
    IN  /\ files' = IF raised THEN files ELSE [files EXCEPT ![f] = r.file]
        /\ stdout' = IF raised \/ r.wrote THEN stdout
                     ELSE Append(stdout, [line |-> "is not changed, skip", path |-> f])
        /\ io' = IF raised THEN io
                 ELSE io \o <<[run |-> run, op |-> "read", file |-> f, res |-> r.read]>>
                         \o (IF r.wrote
                             THEN <<[run |-> run, op |-> "write", file |-> f, res |-> "ok"]>>
                             ELSE <<>>)
        /\ pc' = IF raised THEN "aborted" ELSE AfterScope(pc)
        /\ exc' = IF raised THEN "Exception" ELSE exc
        /\ UNCHANGED <<header, run, atoms, pseudos, contents, buf, wi>>

\* FileAvoidWrite.__exit__ -> close().  raised: the scope is left by an
\* exception, which goes on to the caller once close() has returned.
ExitScope(raised, readFault) ==
    LET f == ScopeFile(pc)
        r == FileAvoidWrite_close(files[f], buf, readFault)
    IN  /\ files' = [files EXCEPT ![f] = r.file]
        /\ stdout' = IF r.wrote THEN stdout
                     ELSE Append(stdout, [line |-> "is not changed, skip", path |-> f])
        /\ io' = io \o <<[run |-> run, op |-> "read", file |-> f, res |-> r.read]>>
                    \o (IF r.wrote
                        THEN <<[run |-> run, op |-> "write", file |-> f, res |-> "ok"]>>
                        ELSE <<>>)
        /\ pc' = IF raised THEN "aborted" ELSE AfterScope(pc)
        /\ exc' = IF raised THEN "Exception" ELSE exc
        /\ UNCHANGED <<header, run, atoms, pseudos, contents, buf, wi>>

\* the end of the with block is reached
ExitNormal ==
    /\ pc \in ScopePcs
    /\ wi = Len(Writes(pc))
    /\ ExitScope(FALSE, FALSE)

\* write_pseudo_elements up to the with block: filter, render
RenderPseudos ==
    /\ pc = "write_pseudo_elements"
    /\ pseudos' = FilterPseudos(atoms)
    /\ contents' = render(TEMPLATE, pseudos')
    /\ stdout' = Append(stdout, [line |-> "cargo:rerun-if-changed", path |-> TEMPLATE])
    /\ io' = Append(io, [run |-> run, op |-> "render", file |-> TEMPLATE, res |-> "ok"])
    /\ pc' = "pseudo_scope"
    /\ buf' = <<>>
    /\ wi' = 0
    /\ UNCHANGED <<header, files, run, atoms, exc>>

\* the tool is invoked again, with the same header and template
NextRun ==
    /\ pc \in {"done", "aborted"}
    /\ run < MaxRuns
    /\ run' = run + 1
    /\ pc' = "collect_atoms"
    /\ atoms' = <<>>
    /\ pseudos' = <<>>
    /\ contents' = <<>>
    /\ buf' = <<>>
    /\ wi' = 0
    /\ exc' = "none"
    /\ UNCHANGED <<header, files, stdout, io>>

(***************************************************************************)
(* Faults: an exception raised inside a with block, a failing read of an   *)
(* existing target.                                                        *)
(***************************************************************************)
\* the end of the with block is reached and the read inside close() fails
ExitReadFault ==
    /\ pc \in ScopePcs
    /\ wi = Len(Writes(pc))
    /\ files[ScopeFile(pc)].exists
    /\ ExitScope(FALSE, TRUE)

\* a statement of the with block raises before its f.write is made
ExitRaised ==
    /\ pc \in ScopePcs
    /\ wi < Len(Writes(pc))
    /\ \E readFault \in BOOLEAN :
           /\ readFault => files[ScopeFile(pc)].exists
           /\ ExitScope(TRUE, readFault)

Next ==
    \/ CollectAtoms
    \/ EnterAtomMacro
    \/ Write
    \/ ExitNormal
    \/ RenderPseudos
    \/ NextRun

Spec == Init /\ [][Next]_vars

NextFault ==
    \/ Next
    \/ ExitReadFault
    \/ ExitRaised

InitFault == InitWith(MaxFaultLines)

SpecFault == InitFault /\ [][NextFault]_vars

(***************************************************************************)
(* Notions the properties are stated with.                                 *)
(***************************************************************************)
IsConstChunk(c) == c.t = "CONST"
IsRuleChunk(c) == c.t = "RULE"
\* the numeric constants and the dispatch rules a file content holds, in order
ConstsIn(content) == SelectSeq(content, IsConstChunk)
RulesIn(content) == SelectSeq(content, IsRuleChunk)

\* atom_macro.rs has been committed by the current run, which got past it
AtomMacroCommitted == pc \in {"write_pseudo_elements", "pseudo_scope", "done"}

\* the operations the run r made on the file f, in order
OpsOf(r, f) ==
    LET Mine(e) == e.run = r /\ e.file = f IN SelectSeq(io, Mine)

\* the matches of PATTERN in the header
HeaderMatches == finditer(header.content, 1)
\* the match m is of a pseudo-element or anon-box category
PseudoCategory(m) ==
    m[5] \in {PseudoElementAtom, NonInheritingAnonBoxAtom, InheritingAnonBoxAtom}
HasUnderscore(ident) == \E k \in 1..Len(ident) : ident[k] = "_"
\* none of the matches ms makes Atom.__init__ index past the split
SplitsIn(ms) ==
    \A k \in 1..Len(ms) : PseudoCategory(ms[k]) => HasUnderscore(ms[k][1])

nsGkAtoms_foo == <<"n", "s", "G", "k", "A", "t", "o", "m", "s", "_", "f", "o", "o">>
nsGkAtoms_type == <<"n", "s", "G", "k", "A", "t", "o", "m", "s", "_", "t", "y", "p", "e">>

(***************************************************************************)
(* C1                                                                      *)
(***************************************************************************)
\* C1: idempotence.  In a run after the first, with the same header and
\* template, no step changes either output file (content, existence,
\* modification time); each scope of such a run ends with the very bytes the
\* file already holds; and when such a run completes it has read both files,
\* written neither, and printed "is not changed, skip" once per file and run.
C1_Idempotent ==
    /\ [][run >= 2 => files' = files]_vars
    /\ [](run >= 2 /\ pc \in ScopePcs /\ wi = Len(Writes(pc))
            => /\ files[ScopeFile(pc)].exists
               /\ files[ScopeFile(pc)].content = buf)
    /\ [](run >= 2 /\ pc = "done"
            => /\ \A f \in OutFiles :
                     /\ Len(OpsOf(run, f)) = 1
                     /\ OpsOf(run, f)[1].op = "read"
                     /\ OpsOf(run, f)[1].res = "ok"
               /\ LET Skip(l) == l.line = "is not changed, skip"
                  IN  Len(SelectSeq(stdout, Skip)) = 2 * (run - 1))

\* a second run has completed over the files the first run wrote
C1_Witness ==
    /\ run = 2
    /\ pc = "done"
    /\ Len(atoms) = 2
    /\ \A f \in OutFiles : files[f].mtime = 1

(***************************************************************************)
(* C2                                                                      *)
(***************************************************************************)
\* C2: once write_atom_macro has committed atom_macro.rs, the file holds
\* the four fixed chunks, then one constant per record, then the macro with
\* one rule per record, all in the order of atoms, nothing dropped or merged;
\* the constant of the record at zero-based position i has value i and the
\* record's qualified identifier as its name; the rule of that record is keyed
\* on the record's literal value and names that constant.
C2_ConstPerRecord ==
    AtomMacroCommitted =>
        LET content == files[ATOM_MACRO].content
            consts  == ConstsIn(content)
            rules   == RulesIn(content)
            n       == Len(atoms)
        IN  /\ Len(content) = 4 + n + 1 + n + 1
            /\ Len(consts) = n
            /\ Len(rules) = n
            /\ consts = SubSeq(content, 5, 4 + n)
            /\ rules = SubSeq(content, 4 + n + 2, 4 + n + 1 + n)
            /\ \A i \in 1..n :
                   /\ consts[i].index = i - 1
                   /\ consts[i].name = atoms[i].ident
                   /\ rules[i].atom = atoms[i].value
                   /\ rules[i].name = consts[i].name

\* two records with the same literal value have been emitted
C2_Witness ==
    /\ pc = "done"
    /\ Len(atoms) = 2
    /\ atoms[1].value = atoms[2].value
    /\ Len(RulesIn(files[ATOM_MACRO].content)) = 2

(***************************************************************************)
(* C3                                                                      *)
(***************************************************************************)
\* what the scenario expects of a one-line header: one record nsGkAtoms_foo
\* with literal foo, constant 0, a rule keyed on foo
OneFooRecord ==
    /\ Len(atoms) = 1
    /\ atoms[1].ident = nsGkAtoms_foo
    /\ atoms[1].value = foo
    /\ ConstsIn(files[ATOM_MACRO].content) = <<[t |-> "CONST", name |-> nsGkAtoms_foo, index |-> 0]>>
    /\ RulesIn(files[ATOM_MACRO].content) = <<[t |-> "RULE", atom |-> foo, name |-> nsGkAtoms_foo]>>

\* C3 as stated: the six-field line
\* GK_ATOM(foo, "", "foo", 0x12345678, nsStaticAtom, Atom) yields one record
C3_SixFieldLineYieldsRecord ==
    (header.exists /\ header.content = LineSixField /\ pc = "done") => OneFooRecord

\* C3 amended: the five-field line
\* GK_ATOM(foo, "foo", 0x12345678, nsStaticAtom, Atom) yields exactly one
\* record, nsGkAtoms_foo with literal foo, constant 0 and a rule keyed on
\* foo; the six-field line does not match PATTERN and yields no record, no
\* constant and no rule.
C3_FiveFieldLineYieldsRecord ==
    /\ (header.exists /\ header.content = LineFoo /\ pc = "done") => OneFooRecord
    /\ (header.exists /\ header.content = LineSixField /\ pc = "done")
           => /\ atoms = <<>>
              /\ ConstsIn(files[ATOM_MACRO].content) = <<>>
              /\ RulesIn(files[ATOM_MACRO].content) = <<>>

\* a run over the one-line five-field header has completed
C3_Witness ==
    /\ header.exists
    /\ header.content = LineFoo
    /\ pc = "done"
    /\ Len(atoms) = 1

(***************************************************************************)
(* C4                                                                      *)
(***************************************************************************)
\* C4 as stated: a reserved identifier gets the trailing marker in its
\* qualified identifier, any other identifier is prefixed unchanged
C4_ReservedIdentEscaped ==
    \A i \in 1..Len(atoms) :
        /\ atoms[i].original_ident \in ReservedIdents
               => atoms[i].ident = IDENT_PREFIX \o atoms[i].original_ident \o <<"_">>
        /\ atoms[i].original_ident \notin ReservedIdents
               => atoms[i].ident = IDENT_PREFIX \o atoms[i].original_ident

\* C4 amended: for every identifier, reserved or not, the qualified identifier
\* is the fixed prefix followed by the identifier unchanged (Atom does not
\* call map_atom), and it is the name of the emitted constant.
C4_IdentPrefixedUnchanged ==
    /\ \A i \in 1..Len(atoms) :
           atoms[i].ident = IDENT_PREFIX \o atoms[i].original_ident
    /\ AtomMacroCommitted =>
           \A i \in 1..Len(atoms) :
               /\ Len(ConstsIn(files[ATOM_MACRO].content)) = Len(atoms)
               /\ ConstsIn(files[ATOM_MACRO].content)[i].name
                      = IDENT_PREFIX \o atoms[i].original_ident

\* the constant of the reserved identifier type has been emitted
C4_Witness ==
    /\ pc = "done"
    /\ \E i \in 1..Len(atoms) :
           /\ atoms[i].original_ident = type_ident
           /\ ConstsIn(files[ATOM_MACRO].content)[i].name = nsGkAtoms_type

(***************************************************************************)
(* C5                                                                      *)
(***************************************************************************)
\* the Gecko type tags the script knows for pseudo records (line 208)
PseudoTypeTags == {nsICSSPseudoElement, nsICSSAnonBoxPseudo}

\* C5 as stated: a record of anon-box category whose type tag is not a
\* recognized one is never constructed (the construction aborts)
C5_AnonBoxTypeTagEnforced ==
    \A i \in 1..Len(atoms) : is_anon_box(atoms[i]) => atoms[i].ty \in PseudoTypeTags

\* C5 amended: the assertion of Atom.__init__ never fails, its condition
\* being the guard it stands under; a record whose category is one of the two
\* anon-box sub-variants is constructed whatever its type tag, provided its
\* identifier holds an underscore: when every pseudo or anon-box line of a
\* readable header has one, collect_atoms returns one record per match, with
\* the type tag and the category of the match.
C5_AssertionNeverFails ==
    /\ exc # "AssertionError"
    /\ (header.exists /\ pc # "collect_atoms")
           => LET ms == HeaderMatches
              IN  SplitsIn(ms)
                      => /\ pc # "aborted"
                         /\ Len(atoms) = Len(ms)
                         /\ \A i \in 1..Len(atoms) :
                                /\ atoms[i].ty = ms[i][4]
                                /\ atoms[i].atom_type = ms[i][5]
                                /\ is_anon_box(atoms[i])
                                       <=> ms[i][5] \in {NonInheritingAnonBoxAtom,
                                                         InheritingAnonBoxAtom}

\* a non-inheriting anon-box record of type nsStaticAtom went through the run
C5_Witness ==
    /\ pc = "done"
    /\ \E i \in 1..Len(atoms) :
           /\ is_non_inheriting_anon_box(atoms[i])
           /\ atoms[i].ty = nsStaticAtom

(***************************************************************************)
(* C6                                                                      *)
(***************************************************************************)
\* the operation at position i of io is a failed read of an output file,
\* res being the way it failed
FailedRead(i, res) ==
    /\ io[i].op = "read"
    /\ io[i].file \in OutFiles
    /\ io[i].res = res

\* the operation after position i is a write of the same file in the same run
WriteFollows(i) ==
    /\ i + 1 <= Len(io)
    /\ io[i + 1].op = "write"
    /\ io[i + 1].file = io[i].file
    /\ io[i + 1].run = io[i].run

\* C6 as stated: a missing target is written without error, and after a read
\* that failed for another reason no write of the target is attempted
C6_ReadFailurePropagates ==
    \A i \in 1..Len(io) :
        /\ FailedRead(i, "ENOENT") => WriteFollows(i)
        /\ FailedRead(i, "EIO") => ~WriteFollows(i)

\* C6 amended: whatever makes the read of the target fail (no such file,
\* permission denied, I/O fault), close() swallows the failure and writes the
\* buffered bytes; a scope whose end is reached never ends the run with an
\* exception because of the read.
C6_ReadFailureSwallowed ==
    /\ [](\A i \in 1..Len(io) :
              (FailedRead(i, "ENOENT") \/ FailedRead(i, "EIO")) => WriteFollows(i))
    /\ [][(pc \in ScopePcs /\ wi = Len(Writes(pc)))
             => /\ pc' = AfterScope(pc)
                /\ exc' = "none"
                /\ files'[ScopeFile(pc)].content = buf]_vars

\* a run has completed although the read of an existing target failed
C6_Witness ==
    /\ pc = "done"
    /\ \E i \in 1..Len(io) : FailedRead(i, "EIO") /\ io[i].run = run

(***************************************************************************)
(* C7                                                                      *)
(***************************************************************************)
\* the place of an operation in a run: header, atom_macro.rs, render,
\* pseudo_element_definition.rs
Rank(e) ==
    CASE e.file = HEADER -> 0
      [] e.file = ATOM_MACRO -> 1
      [] e.file = TEMPLATE -> 2
      [] e.file = PSEUDO_DEFINITION -> 3

\* C7: with an unreadable header the run aborts in collect_atoms: no output
\* file is read, compared, created or written and the renderer is not called;
\* in every run, no step taken before collect_atoms has returned changes an
\* output file, every operation on an output file and every render call comes
\* after the successful read of the header, and the operations on
\* atom_macro.rs come before the render call, which comes before the
\* operations on pseudo_element_definition.rs.
C7_HeaderFirst ==
    /\ [](~header.exists
            => /\ pc \in {"collect_atoms", "aborted"}
               /\ \A i \in 1..Len(io) : io[i].file = HEADER /\ io[i].res = "ENOENT"
               /\ \A f \in OutFiles : files[f] \in InitialFiles)
    /\ [][pc = "collect_atoms" => files' = files]_vars
    /\ [](\A i, j \in 1..Len(io) :
              /\ (i < j) => io[i].run <= io[j].run
              /\ (i < j /\ io[i].run = io[j].run) => Rank(io[i]) < Rank(io[j])
                                                      \/ (io[i].file = io[j].file /\ j = i + 1
                                                          /\ io[i].op = "read" /\ io[j].op = "write")
              /\ Rank(io[j]) > 0
                     => \E k \in 1..(j - 1) :
                            io[k].run = io[j].run /\ io[k].file = HEADER /\ io[k].res = "ok")

\* a run over a missing header has aborted, an earlier build's outputs on disk
C7_Witness ==
    /\ ~header.exists
    /\ pc = "aborted"
    /\ exc = "IOError"
    /\ \A f \in OutFiles : files[f].exists

(***************************************************************************)
(* C8                                                                      *)
(***************************************************************************)
\* the positions of atoms whose declared type is one of the two tags
PseudoPositions ==
    {i \in 1..Len(atoms) : atoms[i].ty = nsICSSPseudoElement \/ atoms[i].ty = nsICSSAnonBoxPseudo}

\* C8: once write_pseudo_elements has rendered, pseudos is exactly the
\* subsequence of atoms at the positions whose declared type is
\* nsICSSPseudoElement or nsICSSAnonBoxPseudo, in their order; the renderer
\* was called once in this run, with pseudos as PSEUDOS, also when pseudos is
\* empty; and when the run is done its result is the content of
\* pseudo_element_definition.rs.
C8_PseudosFiltered ==
    pc \in {"pseudo_scope", "done"} =>
        /\ Len(pseudos) = Cardinality(PseudoPositions)
        /\ \E pos \in [1..Len(pseudos) -> PseudoPositions] :
               /\ \A a, b \in 1..Len(pseudos) : a < b => pos[a] < pos[b]
               /\ \A a \in 1..Len(pseudos) : pseudos[a] = atoms[pos[a]]
        /\ Len(OpsOf(run, TEMPLATE)) = 1
        /\ Len(contents) = 1
        /\ contents[1].PSEUDOS = pseudos
        /\ contents[1].template = TEMPLATE
        /\ pc = "done" => /\ files[PSEUDO_DEFINITION].exists
                          /\ files[PSEUDO_DEFINITION].content = contents

\* the second of two records is the only one kept, and it has been committed
C8_Witness ==
    /\ pc = "done"
    /\ Len(atoms) = 2
    /\ Len(pseudos) = 1
    /\ pseudos[1] = atoms[2]
    /\ files[PSEUDO_DEFINITION].content[1].PSEUDOS = pseudos

(***************************************************************************)
(* C9                                                                      *)
(***************************************************************************)
\* the step leaves the scope of the current FileAvoidWrite
LeavesScope == pc \in ScopePcs /\ pc' \notin ScopePcs

C10_ConstructionNeverFails ==
    (header.exists /\ pc # "collect_atoms")
        => /\ pc # "aborted"
           /\ Len(atoms) = Len(HeaderMatches)
           /\ \A i \in 1..Len(atoms) :
                  (is_pseudo(atoms[i]) \/ is_anon_box(atoms[i]))
                      => "pseudo_ident" \in DOMAIN atoms[i]

\* C10 amended: a record of pseudo-element or anon-box category whose
\* identifier holds an underscore gets as pseudo_ident the identifier without
\* its leading segment up to and including the first underscore; a record of
\* the plain category gets no pseudo_ident; when the identifier of a
\* pseudo-element or anon-box line holds no underscore the construction fails
\* with IndexError and collect_atoms aborts the run, and it fails in no other
\* case.
C10_PseudoIdentAfterUnderscore ==
    /\ \A i \in 1..Len(atoms) :
           LET a == atoms[i]
           IN  IF is_pseudo(a) \/ is_anon_box(a)
               THEN /\ "pseudo_ident" \in DOMAIN a
                    /\ \E k \in 1..Len(a.original_ident) :
                           /\ a.original_ident[k] = "_"
                           /\ ~HasUnderscore(SubSeq(a.original_ident, 1, k - 1))
                           /\ a.pseudo_ident = SubSeq(a.original_ident, k + 1, Len(a.original_ident))
               ELSE "pseudo_ident" \notin DOMAIN a
    /\ (header.exists /\ pc # "collect_atoms")
           => LET ms == HeaderMatches
                  splits == SplitsIn(ms)
              IN  /\ splits <=> pc # "aborted"
                  /\ ~splits <=> exc = "IndexError"
                  /\ splits => Len(atoms) = Len(ms)

\* a pseudo-element and an anon-box record with their pseudo_ident
C10_Witness ==
    /\ pc = "done"
    /\ Len(atoms) = 2
    /\ is_pseudo(atoms[1])
    /\ atoms[1].pseudo_ident = after
    /\ is_anon_box(atoms[2])
    /\ atoms[2].pseudo_ident = <<"c", "e", "l", "l">>

====
